---- MODULE Spec2Model ----
(***************************************************************************)
(* Model of the chat route handler POST of src/app/api/chat/route.js: the  *)
(* validation of the request, the resolution of the model and API version, *)
(* the primary generation call, the 404 fallback chain (the "-latest"      *)
(* name, the other API version, then the model listing of each version)    *)
(* and the mapping of the outcome to the HTTP response.                    *)
(*                                                                         *)
(* Strings are sequences of letters.  The letters of the model are the     *)
(* tokens below ("gemini", "-", "1.5", ...): every string the handler      *)
(* compares, splits or concatenates is written over the same alphabet, so  *)
(* startsWith, endsWith, includes, split, join, trim and replace are       *)
(* computed letter by letter as the JavaScript methods compute them.       *)
(*                                                                         *)
(* The upstream service answers every call with an HTTP response (a status *)
(* and a decoded JSON body) or the call fails at transport level (the      *)
(* awaited promise rejects).  The inbound request body, when it parses, is *)
(* a JSON object.                                                          *)
(***************************************************************************)
EXTENDS Integers, Sequences, FiniteSets, TLC

\* ------------------------------------------------------------------ bounds

\* Longest model list a listing response carries.
MaxModels == 1

\* The requests of one run.
RequestIds == {1, 2}

\* ----------------------------------------------------------------- strings

HYPHEN == "-"
SPACE == " "
SLASH == "/"

\* s.startsWith(p)
StartsWith(s, p) ==
    /\ Len(p) <= Len(s)
    /\ SubSeq(s, 1, Len(p)) = p

\* s.endsWith(p)
EndsWith(s, p) ==
    /\ Len(p) <= Len(s)
    /\ SubSeq(s, Len(s) - Len(p) + 1, Len(s)) = p

\* s.includes(p)
Includes(s, p) ==
    \E i \in 0..(Len(s) - Len(p)) : SubSeq(s, i + 1, i + Len(p)) = p

\* s.trim()
RECURSIVE TrimStart(_)
TrimStart(s) ==
    IF s # <<>> /\ Head(s) = SPACE THEN TrimStart(Tail(s)) ELSE s

RECURSIVE TrimEnd(_)
TrimEnd(s) ==
    IF s # <<>> /\ s[Len(s)] = SPACE THEN TrimEnd(SubSeq(s, 1, Len(s) - 1)) ELSE s

Trim(s) == TrimEnd(TrimStart(s))

\* s.split(sep): the pieces of s between the occurrences of the string sep,
\* scanning left to right.
RECURSIVE SplitFrom(_, _, _)
SplitFrom(s, sep, piece) ==
    IF s = <<>> THEN <<piece>>
    ELSE IF StartsWith(s, sep)
         THEN <<piece>> \o SplitFrom(SubSeq(s, Len(sep) + 1, Len(s)), sep, <<>>)
         ELSE SplitFrom(Tail(s), sep, Append(piece, Head(s)))

Split(s, sep) == SplitFrom(s, sep, <<>>)

\* pieces.join(sep)
RECURSIVE Join(_, _)
Join(pieces, sep) ==
    IF pieces = <<>> THEN <<>>
    ELSE IF Len(pieces) = 1 THEN pieces[1]
         ELSE pieces[1] \o sep \o Join(Tail(pieces), sep)

\* pieces.slice(0, n)
Slice0(pieces, n) == SubSeq(pieces, 1, IF Len(pieces) < n THEN Len(pieces) ELSE n)

\* The string literals of the handler.
LATEST_SUFFIX == <<HYPHEN, "latest">>
MODELS_PATH == <<SLASH, "models", SLASH>>
GEMINI_PRO == <<"gemini", HYPHEN, "pro">>
GEMINI_1_0_PRO == <<"gemini", HYPHEN, "1.0", HYPHEN, "pro">>
GEMINI_1_5 == <<"gemini", HYPHEN, "1.5">>
GEMINI_1_0 == <<"gemini", HYPHEN, "1.0">>
DEFAULT_MODEL == <<"gemini", HYPHEN, "2.0", HYPHEN, "flash">>
V1 == <<"v1">>
V1BETA == <<"v1beta">>

\* An environment variable, a picked model: a value or undefined / null.
Undefined == [defined |-> FALSE, value |-> <<>>]
Value(s) == [defined |-> TRUE, value |-> s]

\* JavaScript truthiness of an optional string: defined and not empty.
Truthy(o) == o.defined /\ o.value # <<>>

\* ------------------------------------------------------- pure functions

\* Mutant: the "gemini-1.0" family is sent to v1 like every other name.
resolveModelAndVersionV1(modelId) ==
    IF modelId = GEMINI_PRO THEN [model |-> GEMINI_1_0_PRO, apiVersion |-> V1BETA]
    ELSE [model |-> modelId, apiVersion |-> V1]

\* resolveModelAndVersion(modelId)
resolveModelAndVersion(modelId) ==
    IF modelId = GEMINI_PRO THEN [model |-> GEMINI_1_0_PRO, apiVersion |-> V1BETA]
    ELSE IF StartsWith(modelId, GEMINI_1_5) THEN [model |-> modelId, apiVersion |-> V1]
    ELSE IF StartsWith(modelId, GEMINI_1_0) THEN [model |-> modelId, apiVersion |-> V1BETA]
    ELSE [model |-> modelId, apiVersion |-> V1]

\* requestedModel = (process.env.GOOGLE_MODEL || "gemini-2.0-flash").trim()
requestedModel(e) ==
    Trim(IF Truthy(e.GOOGLE_MODEL) THEN e.GOOGLE_MODEL.value ELSE DEFAULT_MODEL)

\* envVersion = process.env.GOOGLE_API_VERSION && process.env.GOOGLE_API_VERSION.trim()
envVersion(e) ==
    IF Truthy(e.GOOGLE_API_VERSION)
    THEN Value(Trim(e.GOOGLE_API_VERSION.value))
    ELSE e.GOOGLE_API_VERSION

\* { model, apiVersion } = envVersion ? {requestedModel, envVersion} : resolve...
PrimarySpec(e) ==
    IF Truthy(envVersion(e))
    THEN [model |-> requestedModel(e), apiVersion |-> envVersion(e).value]
    ELSE resolveModelAndVersion(requestedModel(e))

\* Mutant: the toggle only goes from v1 to v1beta.
OtherVersionOneWay(v) == IF v = V1 THEN V1BETA ELSE v

\* attemptVersion === "v1" ? "v1beta" : "v1"
OtherVersion(v) == IF v = V1 THEN V1BETA ELSE V1

\* desiredModelId.replace(/-latest$/, "")
StripLatest(s) ==
    IF EndsWith(s, LATEST_SUFFIX) THEN SubSeq(s, 1, Len(s) - Len(LATEST_SUFFIX)) ELSE s

\* Mutant: "-latest" is appended whatever the name ends in.
CandidatesAlwaysLatest(attemptModel_, attemptVersion_) ==
    <<[model |-> attemptModel_ \o LATEST_SUFFIX, version |-> attemptVersion_],
      [model |-> attemptModel_, version |-> OtherVersion(attemptVersion_)]>>

\* The candidates of the simple fallbacks, in the order they are tried.
Candidates(attemptModel_, attemptVersion_) ==
    (IF ~EndsWith(attemptModel_, LATEST_SUFFIX)
     THEN <<[model |-> attemptModel_ \o LATEST_SUFFIX, version |-> attemptVersion_]>>
     ELSE <<>>)
    \o <<[model |-> attemptModel_, version |-> OtherVersion(attemptVersion_)]>>

\* Mutant: the other version is listed first.
PreferredOrderOtherFirst(attemptVersion_) == <<OtherVersion(attemptVersion_), attemptVersion_>>

\* Mutant: the preferred version first, then every version.
PreferredOrderAll(attemptVersion_) == <<attemptVersion_, V1, V1BETA>>

\* preferredOrder of the listing phase.
PreferredOrder(attemptVersion_) == <<attemptVersion_, OtherVersion(attemptVersion_)>>

\* Mutant: any model with an array of methods is taken as good.
isGoodAnyMethod(m) == m.supportedGenerationMethods.isArray

\* isGood(m): supportedGenerationMethods is an array that includes "generateContent"
isGood(m) ==
    /\ m.supportedGenerationMethods.isArray
    /\ "generateContent" \in m.supportedGenerationMethods.items

\* Mutant: the first piece of the split is taken (shift for pop).
ShortNameFirstPiece(name) == LET p == Split(name, MODELS_PATH) IN p[1]

\* m.name.split("/models/").pop()
ShortName(name) == LET p == Split(name, MODELS_PATH) IN p[Len(p)]

\* Mutant: the family is looked for before the exact name.
pickClosestFamilyFirst(models, desiredModelId) ==
    LET desiredBase == StripLatest(desiredModelId)
        named(m, suffix) == EndsWith(m.name, MODELS_PATH \o suffix)
        exact(m) == named(m, desiredModelId) /\ isGood(m)
        exactLatest(m) == named(m, desiredBase \o LATEST_SUFFIX) /\ isGood(m)
        family == Join(Slice0(Split(desiredBase, <<HYPHEN>>), 3), <<HYPHEN>>)
        inFamily(m) == Includes(m.name, MODELS_PATH \o family) /\ isGood(m)
        sameFamily == SelectSeq(models, inFamily)
        anyGenerate == SelectSeq(models, isGood)
    IN  IF sameFamily # <<>> THEN Value(ShortName(sameFamily[1].name))
        ELSE IF SelectSeq(models, exact) # <<>> THEN Value(desiredModelId)
        ELSE IF SelectSeq(models, exactLatest) # <<>> THEN Value(desiredBase \o LATEST_SUFFIX)
        ELSE IF anyGenerate # <<>> THEN Value(ShortName(anyGenerate[1].name))
        ELSE Undefined

\* pickClosestSupportedModel(models, desiredModelId): the picked name, or null.
\* SelectSeq is models.filter(pred); models.find(pred) is its first element.
pickClosestSupportedModel(models, desiredModelId) ==
    LET desiredBase == StripLatest(desiredModelId)
        named(m, suffix) == EndsWith(m.name, MODELS_PATH \o suffix)
        exact(m) == named(m, desiredModelId) /\ isGood(m)
        exactLatest(m) == named(m, desiredBase \o LATEST_SUFFIX) /\ isGood(m)
        family == Join(Slice0(Split(desiredBase, <<HYPHEN>>), 3), <<HYPHEN>>)
        inFamily(m) == Includes(m.name, MODELS_PATH \o family) /\ isGood(m)
        sameFamily == SelectSeq(models, inFamily)
        anyGenerate == SelectSeq(models, isGood)
    IN  IF SelectSeq(models, exact) # <<>> THEN Value(desiredModelId)
        ELSE IF SelectSeq(models, exactLatest) # <<>> THEN Value(desiredBase \o LATEST_SUFFIX)
        ELSE IF sameFamily # <<>> THEN Value(ShortName(sameFamily[1].name))
        ELSE IF anyGenerate # <<>> THEN Value(ShortName(anyGenerate[1].name))
        ELSE Undefined

\* ------------------------------------------------------------ the inputs

\* The values of the message member of the request body, as JavaScript sees
\* them: absent, null, "", 0, a number, an object, a non-empty string.
MessageValues ==
    {"undefined", "null", "emptyString", "zero", "number", "object", "string"}

\* Mutant: only an absent or null message is taken as missing.
FalsyNullish(m) == m \in {"undefined", "null"}

\* !message
Falsy(m) == m \in {"undefined", "null", "emptyString", "zero"}

\* typeof message
TypeOf(m) ==
    CASE m \in {"emptyString", "string"} -> "string"
      [] m \in {"zero", "number"} -> "number"
      [] m = "undefined" -> "undefined"
      [] OTHER -> "object"

\* The requests: the body parses as a JSON object whose message member is
\* read, or line 3 throws (request.json() rejects, or its value is null and
\* cannot be destructured).
Requests == [parses : BOOLEAN, message : MessageValues]

\* The configurations of process.env.
ApiKeys == {Undefined, Value(<<>>), Value(<<"key">>)}

ModelIds ==
    { Undefined,
      Value(GEMINI_PRO),
      Value(<<SPACE>> \o GEMINI_1_5 \o <<HYPHEN, "flash", SPACE>>),
      Value(GEMINI_1_5 \o <<HYPHEN, "flash">> \o LATEST_SUFFIX),
      Value(GEMINI_1_0 \o <<"x">>),
      Value(<<"text", HYPHEN, "bison">>) }

ApiVersions == {Undefined, Value(<<SPACE>>), Value(<<SPACE>> \o V1BETA), Value(<<"v2">>)}

Environments ==
    [GOOGLE_API_KEY : ApiKeys, GOOGLE_MODEL : ModelIds, GOOGLE_API_VERSION : ApiVersions]

\* The responses of the generation endpoint: a status, the text of the first
\* part of the first candidate of the JSON body (undefined when a step of
\* that path is absent) and the raw body.
REPLY == <<"We offer X, Y, Z.">>
ERROR_BODY == <<"error body">>
JSON_BODY == <<"json body">>

IsOk(status) == status \in 200..299

GenResponses ==
    [status : {200}, text : {Undefined, Value(<<>>), Value(REPLY)}, raw : {JSON_BODY}]
    \cup [status : {403, 404, 500}, text : {Undefined}, raw : {ERROR_BODY}]

\* The models a listing may report.
Methods(items) == [isArray |-> TRUE, items |-> items]
NoMethods == [isArray |-> FALSE, items |-> {}]
PUBLISHER == <<"publishers", SLASH, "google">>

Catalog ==
    { [name |-> PUBLISHER \o MODELS_PATH \o GEMINI_1_5 \o <<HYPHEN, "flash">>,
       supportedGenerationMethods |-> Methods({"generateContent"})],
      [name |-> <<"models", SLASH>> \o DEFAULT_MODEL,
       supportedGenerationMethods |-> Methods({"generateContent", "countTokens"})],
      [name |-> PUBLISHER \o MODELS_PATH \o GEMINI_PRO,
       supportedGenerationMethods |-> Methods({"embedContent"})] }

RECURSIVE SeqsUpTo(_, _)
SeqsUpTo(S, n) ==
    IF n = 0 THEN {<<>>}
    ELSE LET shorter == SeqsUpTo(S, n - 1)
         IN  shorter \cup {Append(q, x) : q \in shorter, x \in S}

\* The responses of the listing endpoint: json.models is an array of models
\* or something else.
ListResponses ==
    [status : {200}, isArray : {TRUE}, models : SeqsUpTo(Catalog, MaxModels)]
    \cup [status : {200, 500}, isArray : {FALSE}, models : {<<>>}]

\* The fixed texts of the responses of the handler.
APOLOGY == <<"Sorry, I couldn't understand that.">>
HINT_404 == <<"Model not found or unsupported for this API/version.">>
HINT_403 == <<"Permission denied.">>

\* --------------------------------------------------------------- the state

VARIABLES
    env,             \* process.env, read by every request and never written
    active,          \* the requests of this run
    request,         \* request[r]: the inbound request of r
    pc,              \* pc[r]: the await the invocation r of POST stands at
    attemptModel,    \* the locals of the invocation r ...
    attemptVersion,
    upstream,
    candidates,      \* the candidates the for loop has not completed
    preferredOrder,  \* the versions the listing loop has not completed
    picked,
    calls,           \* calls[r]: the outbound calls of r, in the order issued
    response,        \* response[r]: the Response POST returned
    service,         \* which responses the upstream service may give in this run
    picking          \* an application of pickClosestSupportedModel on its own

vars == <<env, active, request, pc, attemptModel, attemptVersion, upstream,
          candidates, preferredOrder, picked, calls, response, service, picking>>

\* What no invocation of POST writes.
given == <<env, active, request, service, picking>>

locals == <<attemptModel, attemptVersion, upstream, candidates, preferredOrder, picked>>

NoUpstream == [status |-> 0, text |-> Undefined, raw |-> <<>>]
NoResponse == [status |-> 0]

\* An outbound call: issued (pending), then answered or failed.
GenerateCall(model, version) ==
    [kind |-> "generate", model |-> model, version |-> version,
     state |-> "pending", status |-> 0, text |-> Undefined, models |-> <<>>]

ListCall(version) ==
    [kind |-> "list", model |-> <<>>, version |-> version,
     state |-> "pending", status |-> 0, text |-> Undefined, models |-> <<>>]

\* The log with its last (pending) call answered by status / text / models.
Answered(log, status, text, models) ==
    [log EXCEPT ![Len(log)] =
        [@ EXCEPT !.state = "response", !.status = status, !.text = text, !.models = models]]

\* The log with its last (pending) call failed at transport level.
Failed(log) == [log EXCEPT ![Len(log)] = [@ EXCEPT !.state = "failed"]]

\* The responses of the handler.
InvalidMessage == [status |-> 400, error |-> <<"Invalid message">>]
MissingKey == [status |-> 500, error |-> <<"Missing GOOGLE_API_KEY">>]
ServerError == [status |-> 500, error |-> <<"Server error">>]

\* Mutant: only a 404 gets a hint.
maybeHintOnly404(status) == IF status = 404 THEN Value(HINT_404) ELSE Undefined

\* maybeHint: the hint of an upstream status, if it has one.
maybeHint(status) ==
    IF status = 404 THEN Value(HINT_404)
    ELSE IF status = 403 THEN Value(HINT_403)
    ELSE Undefined

UpstreamError(up, model, version) ==
    [status |-> 502, error |-> <<"Upstream error">>, upstreamStatus |-> up.status,
     details |-> up.raw, model |-> model, apiVersion |-> version,
     hint |-> maybeHint(up.status)]

\* Mutant: the apology replaces an absent text only (?? for ||).
botReplyNullish(up) == IF up.text.defined THEN up.text.value ELSE APOLOGY

\* botReply = data?.candidates?.[0]?.content?.parts?.[0]?.text || "Sorry, ..."
botReply(up) == IF Truthy(up.text) THEN up.text.value ELSE APOLOGY

Reply(up) == [status |-> 200, reply |-> botReply(up)]

\* Mutant: only a 404 is mapped to the upstream error.
FinalResponseOnly404(up, model, version) ==
    IF up.status = 404 THEN UpstreamError(up, model, version) ELSE Reply(up)

\* Lines 155-189: the response of the last upstream response kept.
FinalResponse(up, model, version) ==
    IF ~IsOk(up.status) THEN UpstreamError(up, model, version) ELSE Reply(up)

\* Everything the upstream service may answer.
FullService == [generate |-> GenResponses, list |-> ListResponses]

\* What the upstream service answers in the concurrent runs: a reply, a
\* body without text, a 404 or a 403 to a generation call; an error, a model
\* of the family or a model without generateContent to a listing call.
ConcService ==
    [generate |-> { [status |-> 200, text |-> Value(REPLY), raw |-> JSON_BODY],
                    [status |-> 200, text |-> Undefined, raw |-> JSON_BODY],
                    [status |-> 404, text |-> Undefined, raw |-> ERROR_BODY],
                    [status |-> 403, text |-> Undefined, raw |-> ERROR_BODY] },
     list |-> { [status |-> 500, isArray |-> FALSE, models |-> <<>>],
                [status |-> 200, isArray |-> TRUE,
                 models |-> << [name |-> PUBLISHER \o MODELS_PATH \o GEMINI_1_5
                                          \o <<HYPHEN, "flash">>,
                                supportedGenerationMethods |->
                                    Methods({"generateContent"})] >>],
                [status |-> 200, isArray |-> TRUE,
                 models |-> << [name |-> PUBLISHER \o MODELS_PATH \o GEMINI_PRO,
                                supportedGenerationMethods |->
                                    Methods({"embedContent"})] >>] }]

\* The responses the upstream service may give in a run, by the name of the run.
Services == [full |-> FullService, concurrent |-> ConcService]

\* pickClosestSupportedModel is not being applied on its own.
NoPick == [models |-> <<>>, desired |-> <<>>, applied |-> FALSE, result |-> Undefined]

\* No invocation of POST has started.
Idle ==
    /\ pc = [r \in RequestIds |-> "start"]
    /\ attemptModel = [r \in RequestIds |-> <<>>]
    /\ attemptVersion = [r \in RequestIds |-> <<>>]
    /\ upstream = [r \in RequestIds |-> NoUpstream]
    /\ candidates = [r \in RequestIds |-> <<>>]
    /\ preferredOrder = [r \in RequestIds |-> <<>>]
    /\ picked = [r \in RequestIds |-> Undefined]
    /\ calls = [r \in RequestIds |-> <<>>]
    /\ response = [r \in RequestIds |-> NoResponse]

\* One request, any configuration, any inbound request.
Init ==
    /\ env \in Environments
    /\ active = {1}
    /\ request \in [RequestIds -> Requests]
    /\ \A r \in RequestIds \ active : request[r] = [parses |-> TRUE, message |-> "string"]
    /\ service = "full"
    /\ picking = NoPick
    /\ Idle

\* !message || typeof message !== "string"
invalidMessage(m) == Falsy(m) \/ TypeOf(m) # "string"

\* Mutant: the key is there as soon as the variable is defined.
hasKeyDefined(e) == e.GOOGLE_API_KEY.defined

\* apiKey = process.env.GOOGLE_API_KEY; the key is there when apiKey is truthy.
hasKey(e) == Truthy(e.GOOGLE_API_KEY)

\* Mutant: the response is kept in a binding that all invocations share.
ReturnShared(r, resp) ==
    /\ response' = [q \in RequestIds |-> resp]
    /\ pc' = [pc EXCEPT ![r] = "done"]

\* return new Response(...): the invocation ends.
Return(r, resp) ==
    /\ response' = [response EXCEPT ![r] = resp]
    /\ pc' = [pc EXCEPT ![r] = "done"]

\* Mutant: what was thrown is reported as an upstream error.
CatchAsUpstream(r) == Return(r, [status |-> 502, error |-> <<"Upstream error">>])

\* catch (error): whatever was thrown, the response is 500 "Server error".
Catch(r) == Return(r, ServerError)

\* Lines 3-20: the body is parsed, the message and the key are checked, the
\* import of the knowledge base is started.
ParseRequest(r) ==
    /\ r \in active
    /\ pc[r] = "start"
    /\ IF ~request[r].parses
       THEN Catch(r)
       ELSE IF invalidMessage(request[r].message)
       THEN Return(r, InvalidMessage)
       ELSE IF ~hasKey(env)
       THEN Return(r, MissingKey)
       ELSE /\ pc' = [pc EXCEPT ![r] = "import"]
            /\ UNCHANGED response
    /\ UNCHANGED <<given, locals, calls>>

\* Lines 20-111: the import resolves or rejects; the model and the version
\* are resolved and the primary generation call is issued.
LoadKnowledge(r) ==
    /\ r \in active
    /\ pc[r] = "import"
    /\ \E loaded \in BOOLEAN :
        IF ~loaded
        THEN /\ Catch(r)
             /\ UNCHANGED <<locals, calls>>
        ELSE /\ attemptModel' = [attemptModel EXCEPT ![r] = PrimarySpec(env).model]
             /\ attemptVersion' = [attemptVersion EXCEPT ![r] = PrimarySpec(env).apiVersion]
             /\ calls' = [calls EXCEPT ![r] =
                    Append(@, GenerateCall(PrimarySpec(env).model, PrimarySpec(env).apiVersion))]
             /\ pc' = [pc EXCEPT ![r] = "primary"]
             /\ UNCHANGED <<upstream, candidates, preferredOrder, picked, response>>
    /\ UNCHANGED <<given>>

\* Mutant: the loop is left on a success but the response kept is still the
\* primary one.
SucceedKeepsPrimary(r, resp, log, model, version) ==
    /\ attemptModel' = [attemptModel EXCEPT ![r] = model]
    /\ attemptVersion' = [attemptVersion EXCEPT ![r] = version]
    /\ calls' = [calls EXCEPT ![r] = log]
    /\ pc' = [pc EXCEPT ![r] = "finish"]
    /\ UNCHANGED <<upstream, candidates, preferredOrder, picked, response>>

\* Lines 127-130 and 144-147: a fallback call succeeded; its response, model
\* and version are kept and the loop is left.
Succeed(r, resp, log, model, version) ==
    /\ upstream' = [upstream EXCEPT ![r] = resp]
    /\ attemptModel' = [attemptModel EXCEPT ![r] = model]
    /\ attemptVersion' = [attemptVersion EXCEPT ![r] = version]
    /\ calls' = [calls EXCEPT ![r] = log]
    /\ pc' = [pc EXCEPT ![r] = "finish"]
    /\ UNCHANGED <<candidates, preferredOrder, picked, response>>

\* Line 111: the primary call is answered or fails; on 404 the simple
\* fallbacks are built (lines 114-122) and the first one is called.
PrimaryResponse(r) ==
    /\ r \in active
    /\ pc[r] = "primary"
    /\ \/ /\ calls' = [calls EXCEPT ![r] = Failed(@)]
          /\ Catch(r)
          /\ UNCHANGED locals
       \/ \E resp \in Services[service].generate :
            LET log == Answered(calls[r], resp.status, resp.text, <<>>)
                cands == Candidates(attemptModel[r], attemptVersion[r])
            IN  /\ upstream' = [upstream EXCEPT ![r] = resp]
                /\ IF ~IsOk(resp.status) /\ resp.status = 404
                   THEN /\ candidates' = [candidates EXCEPT ![r] = cands]
                        /\ calls' = [calls EXCEPT ![r] =
                               Append(log, GenerateCall(cands[1].model, cands[1].version))]
                        /\ pc' = [pc EXCEPT ![r] = "fallback"]
                   ELSE /\ calls' = [calls EXCEPT ![r] = log]
                        /\ pc' = [pc EXCEPT ![r] = "finish"]
                        /\ UNCHANGED candidates
                /\ UNCHANGED <<attemptModel, attemptVersion, preferredOrder, picked, response>>
    /\ UNCHANGED <<given>>

\* Lines 124-136: a simple fallback is answered or fails.  A success ends
\* the loop; otherwise the next candidate is called and, after the last one,
\* the listing phase starts while upstream is still a 404.
FallbackResponse(r) ==
    /\ r \in active
    /\ pc[r] = "fallback"
    /\ \/ /\ calls' = [calls EXCEPT ![r] = Failed(@)]
          /\ Catch(r)
          /\ UNCHANGED locals
       \/ \E resp \in Services[service].generate :
            LET log == Answered(calls[r], resp.status, resp.text, <<>>)
                cand == Head(candidates[r])
                rest == Tail(candidates[r])
                order == PreferredOrder(attemptVersion[r])
            IN  IF IsOk(resp.status)
                THEN Succeed(r, resp, log, cand.model, cand.version)
                ELSE IF rest # <<>>
                THEN /\ candidates' = [candidates EXCEPT ![r] = rest]
                     /\ calls' = [calls EXCEPT ![r] =
                            Append(log, GenerateCall(rest[1].model, rest[1].version))]
                     /\ UNCHANGED <<pc, attemptModel, attemptVersion, upstream,
                                    preferredOrder, picked, response>>
                ELSE IF ~IsOk(upstream[r].status) /\ upstream[r].status = 404
                THEN /\ candidates' = [candidates EXCEPT ![r] = rest]
                     /\ preferredOrder' = [preferredOrder EXCEPT ![r] = order]
                     /\ calls' = [calls EXCEPT ![r] = Append(log, ListCall(order[1]))]
                     /\ pc' = [pc EXCEPT ![r] = "listing"]
                     /\ UNCHANGED <<attemptModel, attemptVersion, upstream, picked, response>>
                ELSE /\ candidates' = [candidates EXCEPT ![r] = rest]
                     /\ calls' = [calls EXCEPT ![r] = log]
                     /\ pc' = [pc EXCEPT ![r] = "finish"]
                     /\ UNCHANGED <<attemptModel, attemptVersion, upstream,
                                    preferredOrder, picked, response>>
    /\ UNCHANGED <<given>>

\* Mutant: the listing loop does not advance; the same version is listed again.
NextVersionAgain(r, log) ==
    /\ calls' = [calls EXCEPT ![r] = Append(log, ListCall(Head(preferredOrder[r])))]
    /\ pc' = [pc EXCEPT ![r] = "listing"]
    /\ UNCHANGED preferredOrder

\* The listing loop moves to its next version: the listing call of that
\* version is issued, or the loop is over.
NextVersion(r, log) ==
    LET rest == Tail(preferredOrder[r])
    IN  /\ preferredOrder' = [preferredOrder EXCEPT ![r] = rest]
        /\ IF rest # <<>>
           THEN /\ calls' = [calls EXCEPT ![r] = Append(log, ListCall(rest[1]))]
                /\ pc' = [pc EXCEPT ![r] = "listing"]
           ELSE /\ calls' = [calls EXCEPT ![r] = log]
                /\ pc' = [pc EXCEPT ![r] = "finish"]

\* listModels(targetVersion): the models of a listing response.
listModels(resp) ==
    IF ~IsOk(resp.status) THEN <<>>
    ELSE IF resp.isArray THEN resp.models ELSE <<>>

\* Lines 138-142: the listing of a version is answered or fails; a model is
\* picked from a non-empty list and called under that version.
ListingResponse(r) ==
    /\ r \in active
    /\ pc[r] = "listing"
    /\ \/ /\ calls' = [calls EXCEPT ![r] = Failed(@)]
          /\ Catch(r)
          /\ UNCHANGED locals
       \/ \E resp \in Services[service].list :
            LET models == listModels(resp)
                log == Answered(calls[r], resp.status, Undefined, models)
                ver == Head(preferredOrder[r])
                pick == pickClosestSupportedModel(models, attemptModel[r])
            IN  /\ IF models # <<>> /\ Truthy(pick)
                   THEN /\ picked' = [picked EXCEPT ![r] = pick]
                        /\ calls' = [calls EXCEPT ![r] =
                               Append(log, GenerateCall(pick.value, ver))]
                        /\ pc' = [pc EXCEPT ![r] = "retry"]
                        /\ UNCHANGED preferredOrder
                   ELSE /\ NextVersion(r, log)
                        /\ UNCHANGED picked
                /\ UNCHANGED <<attemptModel, attemptVersion, upstream, candidates, response>>
    /\ UNCHANGED <<given>>

\* Lines 142-149: the generation call of the picked model is answered or
\* fails; a success ends the loop, anything else moves to the next version.
RetryResponse(r) ==
    /\ r \in active
    /\ pc[r] = "retry"
    /\ \/ /\ calls' = [calls EXCEPT ![r] = Failed(@)]
          /\ Catch(r)
          /\ UNCHANGED locals
       \/ \E resp \in Services[service].generate :
            LET log == Answered(calls[r], resp.status, resp.text, <<>>)
            IN  IF IsOk(resp.status)
                THEN Succeed(r, resp, log, picked[r].value, Head(preferredOrder[r]))
                ELSE /\ NextVersion(r, log)
                     /\ UNCHANGED <<attemptModel, attemptVersion, upstream, candidates,
                                    picked, response>>
    /\ UNCHANGED <<given>>

\* Lines 155-189: the last upstream response is mapped to the response.
Finish(r) ==
    /\ r \in active
    /\ pc[r] = "finish"
    /\ Return(r, FinalResponse(upstream[r], attemptModel[r], attemptVersion[r]))
    /\ UNCHANGED <<given, locals, calls>>

POST(r) ==
    \/ ParseRequest(r)
    \/ LoadKnowledge(r)
    \/ PrimaryResponse(r)
    \/ FallbackResponse(r)
    \/ ListingResponse(r)
    \/ RetryResponse(r)
    \/ Finish(r)

Next == \E r \in RequestIds : POST(r)

Spec == Init /\ [][Next]_vars

\* Every outbound call eventually returns a response or fails, and a
\* continuation that can run is eventually run.
Fairness == \A r \in RequestIds : WF_vars(POST(r))

SpecLive == Spec /\ Fairness

\* ------------------------------------------------- concurrent invocations

\* The configuration of the concurrent runs: a key, a model with two simple
\* fallbacks, no version override.
ConcEnv ==
    [GOOGLE_API_KEY |-> Value(<<"key">>),
     GOOGLE_MODEL |-> Value(<<SPACE>> \o GEMINI_1_5 \o <<HYPHEN, "flash", SPACE>>),
     GOOGLE_API_VERSION |-> Undefined]

\* The inbound requests of the concurrent runs: a valid and an empty message.
ConcRequests ==
    { [parses |-> TRUE, message |-> "string"],
      [parses |-> TRUE, message |-> "emptyString"] }

\* Every request is handled; each has its own inbound request.
InitConc ==
    /\ env = ConcEnv
    /\ active = RequestIds
    /\ request \in [RequestIds -> ConcRequests]
    /\ service = "concurrent"
    /\ picking = NoPick
    /\ Idle

\* The invocations of POST with their steps interleaved in any order.
SpecConc == InitConc /\ [][Next]_vars

\* ------------------------------------- pickClosestSupportedModel on its own

\* Longest model list pickClosestSupportedModel is applied to.
MaxListed == 3

\* The models of the lists it is applied to.
PickCatalog ==
    { [name |-> PUBLISHER \o MODELS_PATH \o GEMINI_1_5 \o <<HYPHEN, "flash">>,
       supportedGenerationMethods |-> Methods({"generateContent"})],
      [name |-> PUBLISHER \o MODELS_PATH \o GEMINI_1_5 \o <<HYPHEN, "flash">> \o LATEST_SUFFIX,
       supportedGenerationMethods |-> Methods({"generateContent"})],
      [name |-> PUBLISHER \o MODELS_PATH \o GEMINI_1_5 \o <<HYPHEN, "flash", HYPHEN, "8b">>,
       supportedGenerationMethods |-> Methods({"generateContent", "countTokens"})],
      [name |-> PUBLISHER \o MODELS_PATH \o GEMINI_PRO \o <<HYPHEN, "vision">>,
       supportedGenerationMethods |-> Methods({"generateContent"})],
      [name |-> <<"models", SLASH>> \o DEFAULT_MODEL,
       supportedGenerationMethods |-> Methods({"generateContent"})],
      [name |-> PUBLISHER \o MODELS_PATH \o GEMINI_1_5 \o <<HYPHEN, "flash">>,
       supportedGenerationMethods |-> Methods({"embedContent"})],
      [name |-> PUBLISHER \o MODELS_PATH \o GEMINI_PRO \o LATEST_SUFFIX,
       supportedGenerationMethods |-> NoMethods] }

\* The desired names it is applied to.
DesiredIds ==
    { GEMINI_1_5 \o <<HYPHEN, "flash">>,
      GEMINI_1_5 \o <<HYPHEN, "flash">> \o LATEST_SUFFIX,
      GEMINI_PRO \o LATEST_SUFFIX }

\* No request; any list and any desired name.
InitPick ==
    /\ env = [GOOGLE_API_KEY |-> Undefined, GOOGLE_MODEL |-> Undefined,
              GOOGLE_API_VERSION |-> Undefined]
    /\ active = {}
    /\ request = [r \in RequestIds |-> [parses |-> TRUE, message |-> "string"]]
    /\ service = "full"
    /\ picking \in [models : SeqsUpTo(PickCatalog, MaxListed), desired : DesiredIds,
                    applied : {FALSE}, result : {Undefined}]
    /\ Idle

\* picked = pickClosestSupportedModel(models, attemptModel)
ApplyPick ==
    /\ ~picking.applied
    /\ picking' = [picking EXCEPT
                      !.applied = TRUE,
                      !.result = pickClosestSupportedModel(picking.models, picking.desired)]
    /\ UNCHANGED <<env, active, request, service, locals, pc, calls, response>>

SpecPick == InitPick /\ [][ApplyPick]_vars

\* ------------------------------------------------------------- the claims

Done(r) == pc[r] = "done"

\* The positions of the generation calls in the calls of r.
GenCalls(r) == {i \in 1..Len(calls[r]) : calls[r][i].kind = "generate"}

\* The request of r has a body that parses and a valid message.
ValidMessage(r) == request[r].parses /\ request[r].message = "string"

\* The request of r has a body that parses and a message that is absent,
\* empty or not a string.
BadMessage(r) == request[r].parses /\ request[r].message # "string"

\* C1: a request whose message is absent, empty or not a string issues no
\* outbound call at any time and, once the handler has acted, has ended with
\* status 400, whatever the credential.
C1_BadMessage400 ==
    \A r \in active :
        BadMessage(r) =>
            /\ calls[r] = <<>>
            /\ pc[r] \in {"start", "done"}
            /\ Done(r) => response[r].status = 400

\* C1 happens: an empty message with no credential configured was answered 400.
C1_Witness ==
    \E r \in active :
        /\ request[r].parses /\ request[r].message = "emptyString"
        /\ ~env.GOOGLE_API_KEY.defined
        /\ Done(r) /\ response[r].status = 400 /\ calls[r] = <<>>

\* C2: a request with a valid message and no credential key issues no
\* outbound call at any time and, once the handler has acted, has ended with
\* status 500.
C2_MissingKey500 ==
    \A r \in active :
        (ValidMessage(r) /\ (~env.GOOGLE_API_KEY.defined \/ env.GOOGLE_API_KEY.value = <<>>)) =>
            /\ calls[r] = <<>>
            /\ pc[r] \in {"start", "done"}
            /\ Done(r) => response[r].status = 500

\* C2 happens: a valid message with an empty credential was answered 500.
C2_Witness ==
    \E r \in active :
        /\ ValidMessage(r)
        /\ env.GOOGLE_API_KEY = Value(<<>>)
        /\ Done(r) /\ response[r] = MissingKey /\ calls[r] = <<>>

\* The requested identifier and the version override of the configuration.
RequestedId == requestedModel(env)
OverrideSet == envVersion(env).defined /\ envVersion(env).value # <<>>

\* C3: the first outbound call of a request is a generation call whose model
\* and version are: with an override, the requested identifier and the
\* override; with none, "gemini-pro" gives ("gemini-1.0-pro", v1beta), a
\* "gemini-1.5" prefix gives (same, v1), a "gemini-1.0" prefix gives
\* (same, v1beta), any other identifier gives (same, v1).
C3_PrimarySpec ==
    \A r \in active :
        calls[r] # <<>> =>
            LET c == calls[r][1]
                is15 == StartsWith(RequestedId, GEMINI_1_5)
                is10 == StartsWith(RequestedId, GEMINI_1_0)
            IN  /\ c.kind = "generate"
                /\ OverrideSet =>
                     c.model = RequestedId /\ c.version = envVersion(env).value
                /\ (~OverrideSet /\ RequestedId = GEMINI_PRO) =>
                     c.model = GEMINI_1_0_PRO /\ c.version = V1BETA
                /\ (~OverrideSet /\ is15) =>
                     c.model = RequestedId /\ c.version = V1
                /\ (~OverrideSet /\ is10) =>
                     c.model = RequestedId /\ c.version = V1BETA
                /\ (~OverrideSet /\ RequestedId # GEMINI_PRO /\ ~is15 /\ ~is10) =>
                     c.model = RequestedId /\ c.version = V1

\* C3 happens: "gemini-1.0x" with no override was called under v1beta.
C3_Witness ==
    \E r \in active :
        /\ calls[r] # <<>>
        /\ ~OverrideSet
        /\ StartsWith(RequestedId, GEMINI_1_0)
        /\ calls[r][1].model = RequestedId /\ calls[r][1].version = V1BETA

\* The primary call of r was answered 404.
Primary404(r) ==
    /\ calls[r] # <<>>
    /\ calls[r][1].state = "response"
    /\ calls[r][1].status = 404

\* C4: after a 404 of the primary call, the next outbound call is the
\* generation call of the primary name plus "-latest" under the same version
\* when the name lacks "-latest"; when the name ends in "-latest" the next
\* call is the primary name under the other version, and no generation call
\* of the request targets the name with a second "-latest".
C4_LatestFallback ==
    \A r \in active :
        Primary404(r) =>
            LET p == calls[r][1]
            IN  /\ Len(calls[r]) >= 2
                /\ calls[r][2].kind = "generate"
                /\ IF ~EndsWith(p.model, LATEST_SUFFIX)
                   THEN /\ calls[r][2].model = p.model \o LATEST_SUFFIX
                        /\ calls[r][2].version = p.version
                   ELSE /\ calls[r][2].model = p.model
                        /\ calls[r][2].version = (IF p.version = V1 THEN V1BETA ELSE V1)
                        /\ \A i \in GenCalls(r) :
                              calls[r][i].model # p.model \o LATEST_SUFFIX

\* C4 happens: a primary name ending in "-latest" was answered 404 and the
\* next call went to the other version.
C4_Witness ==
    \E r \in active :
        /\ Primary404(r)
        /\ EndsWith(calls[r][1].model, LATEST_SUFFIX)
        /\ Len(calls[r]) >= 2
        /\ calls[r][2].model = calls[r][1].model
        /\ calls[r][2].version # calls[r][1].version

\* The call at position i of r is a generation call that was answered.
AnsweredGen(r, i) == calls[r][i].kind = "generate" /\ calls[r][i].state = "response"

\* The position of the last generation call of r.
LastGen(r) == CHOOSE i \in GenCalls(r) : \A j \in GenCalls(r) : j <= i

\* C5: a generation call answered 2xx is the last outbound call of its
\* request, and the response of the request is 200 with the text of that
\* call's body as the reply.
C5_StopAtFirstSuccess ==
    \A r \in active : \A i \in GenCalls(r) :
        (AnsweredGen(r, i) /\ IsOk(calls[r][i].status)) =>
            /\ i = Len(calls[r])
            /\ pc[r] \in {"finish", "done"}
            /\ Done(r) =>
                 /\ response[r].status = 200
                 /\ Truthy(calls[r][i].text) => response[r].reply = calls[r][i].text.value

\* C5 happens: the third generation call of a request succeeded and its text
\* was returned.
C5_Witness ==
    \E r \in active :
        /\ Len(calls[r]) = 3
        /\ AnsweredGen(r, 3) /\ IsOk(calls[r][3].status)
        /\ Done(r) /\ response[r].status = 200 /\ response[r].reply = REPLY

\* C6: a generation call answered with a non-2xx status other than 404 is
\* the last outbound call of its request, and the request ends with 502.
C6_FailureSurfaced ==
    \A r \in active : \A i \in GenCalls(r) :
        (AnsweredGen(r, i) /\ ~IsOk(calls[r][i].status) /\ calls[r][i].status # 404) =>
            /\ i = Len(calls[r])
            /\ Done(r) => response[r].status = 502

\* The request of r ended with 502 after its fallback chain ran to its end.
Exhausted(r) == Done(r) /\ response[r].status = 502 /\ Primary404(r)

\* C7: a 502 after the exhausted fallback chain names the model and the
\* version of the last generation call of the request.
C7_LastAttemptReported ==
    \A r \in active :
        Exhausted(r) =>
            /\ response[r].model = calls[r][LastGen(r)].model
            /\ response[r].apiVersion = calls[r][LastGen(r)].version

\* C8: a 502 after the exhausted fallback chain whose last generation call
\* was answered 403 carries the status 403 and the hint of 403.
C8_ForbiddenHint ==
    \A r \in active :
        (Exhausted(r) /\ calls[r][LastGen(r)].status = 403) =>
            /\ response[r].upstreamStatus = 403
            /\ response[r].hint = Value(HINT_403)

\* No call of r failed at transport level.
NoTransportFailure(r) == \A i \in 1..Len(calls[r]) : calls[r][i].state # "failed"

C10_AtMostFiveCalls == \A r \in active : Len(calls[r]) <= 5

\* C10 amended: a request issues at most seven outbound calls (the primary
\* call, two simple fallbacks, two listing calls and their two generation
\* calls).
C10_AtMostSevenCalls == \A r \in active : Len(calls[r]) <= 7

\* C10 happens: a request ended after seven outbound calls.
C10_Witness == \E r \in active : Done(r) /\ Len(calls[r]) = 7

\* A listed model reports the generateContent capability.
SupportsGenerate(m) ==
    /\ m.supportedGenerationMethods.isArray
    /\ "generateContent" \in m.supportedGenerationMethods.items

\* The call at position i of r is a listing call that was answered.
AnsweredList(r, i) == calls[r][i].kind = "list" /\ calls[r][i].state = "response"

\* The answered listing at position i of r gives nothing to try: a non-2xx
\* status, an empty list, or no model supporting generateContent.
NothingListed(r, i) ==
    \/ ~IsOk(calls[r][i].status)
    \/ calls[r][i].models = <<>>
    \/ \A k \in 1..Len(calls[r][i].models) : ~SupportsGenerate(calls[r][i].models[k])

\* The listing at position i of r is the first listing of the request.
FirstListing(r, i) == \A j \in 1..(i - 1) : calls[r][j].kind # "list"

\* C11: after a listing that gives nothing to try, no generation call is
\* made for that version and nothing is raised: after the first listing the
\* next call is the listing of the other version, after the second listing
\* there is no further call and the request goes on to its response, which is
\* no 500 unless a call failed at transport level.
C11_EmptyListingSkipped ==
    \A r \in active : \A i \in 1..Len(calls[r]) :
        (AnsweredList(r, i) /\ NothingListed(r, i)) =>
            /\ IF FirstListing(r, i)
               THEN /\ Len(calls[r]) > i
                    /\ calls[r][i + 1].kind = "list"
                    /\ calls[r][i + 1].version # calls[r][i].version
               ELSE /\ Len(calls[r]) = i
                    /\ pc[r] \in {"finish", "done"}
            /\ (Done(r) /\ NoTransportFailure(r)) => response[r].status # 500

\* C11 happens: the first listing was answered 500, the second listing
\* reported only a model without generateContent, and the request ended.
C11_Witness ==
    \E r \in active : \E i \in 1..Len(calls[r]) :
        /\ AnsweredList(r, i) /\ ~IsOk(calls[r][i].status)
        /\ Len(calls[r]) = i + 1
        /\ AnsweredList(r, i + 1) /\ calls[r][i + 1].models # <<>>
        /\ NothingListed(r, i + 1)
        /\ Done(r) /\ response[r].status = 502

\* The names of the listed models supporting generateContent, in the order
\* listed: the name of a model is what follows "/models/" in its resource name.
GoodNames(models) ==
    LET good == SelectSeq(models, SupportsGenerate)
    IN  [k \in 1..Len(good) |-> ShortName(good[k].name)]

\* The first three hyphen-separated segments of a name.
FirstThreeSegments(name) ==
    LET seg == Split(name, <<HYPHEN>>)
    IN  Join(SubSeq(seg, 1, IF Len(seg) < 3 THEN Len(seg) ELSE 3), <<HYPHEN>>)

\* A name without its trailing "-latest".
WithoutLatest(name) ==
    IF EndsWith(name, LATEST_SUFFIX) THEN SubSeq(name, 1, Len(name) - 2) ELSE name

\* The precedence of the claim, the family being the names that start with prefix.
Precedence(models, desired, prefix) ==
    LET names == GoodNames(models)
        listed(n) == \E k \in 1..Len(names) : names[k] = n
        inFamily == {k \in 1..Len(names) : StartsWith(names[k], prefix)}
        first == CHOOSE k \in inFamily : \A j \in inFamily : k <= j
        latest == WithoutLatest(desired) \o LATEST_SUFFIX
    IN  IF listed(desired) THEN Value(desired)
        ELSE IF listed(latest) THEN Value(latest)
        ELSE IF inFamily # {} THEN Value(names[first])
        ELSE IF Len(names) > 0 THEN Value(names[1])
        ELSE Undefined

\* C12 as claimed: the pick follows the precedence exact name, name plus
\* "-latest", first model of the family, first model supporting
\* generateContent, nothing; the family is given by the first three segments
\* of the desired name.
C12_PrecedenceDesiredFamily ==
    picking.applied =>
        picking.result =
            Precedence(picking.models, picking.desired, FirstThreeSegments(picking.desired))

\* C12 amended: the same precedence, the family being given by the first
\* three segments of the desired name without its trailing "-latest".
C12_PrecedenceBaseFamily ==
    picking.applied =>
        picking.result =
            Precedence(picking.models, picking.desired,
                       FirstThreeSegments(WithoutLatest(picking.desired)))

\* C12 happens: the exact name is listed last, after a model of its family
\* and another model, and is picked.
C12_Witness ==
    /\ picking.applied
    /\ Len(picking.models) = 3
    /\ GoodNames(picking.models) # <<>>
    /\ Len(GoodNames(picking.models)) = 3
    /\ GoodNames(picking.models)[3] = picking.desired
    /\ StartsWith(GoodNames(picking.models)[1], picking.desired)
    /\ GoodNames(picking.models)[1] # picking.desired
    /\ picking.result = Value(picking.desired)

\* The other of the two API versions, as the claims read it.
Toggled(v) == IF v = V1 THEN V1BETA ELSE V1

\* The number of simple fallbacks of a primary model name.
SimpleFallbacks(model) == IF EndsWith(model, LATEST_SUFFIX) THEN 1 ELSE 2

C14_ReplyOrApology ==
    \A r \in active :
        (/\ Done(r) /\ GenCalls(r) # {}
         /\ AnsweredGen(r, LastGen(r)) /\ IsOk(calls[r][LastGen(r)].status)) =>
            LET text == calls[r][LastGen(r)].text
            IN  /\ response[r].status = 200
                /\ (text.defined /\ text.value # <<>>) => response[r].reply = text.value
                /\ (~text.defined \/ text.value = <<>>) => response[r].reply = APOLOGY
                /\ response[r].reply # <<>>

\* C14 happens: a 2xx answer with an empty text was replied to with the apology.
C14_Witness ==
    \E r \in active :
        /\ Done(r) /\ GenCalls(r) # {}
        /\ AnsweredGen(r, LastGen(r)) /\ IsOk(calls[r][LastGen(r)].status)
        /\ calls[r][LastGen(r)].text = Value(<<>>)
        /\ response[r].status = 200 /\ response[r].reply = APOLOGY

\* C15: a body that cannot be parsed, a knowledge document that fails to
\* load (the only way a valid request with a credential ends without a call)
\* and a call that fails at transport level each end the request with 500;
\* no call is issued before the knowledge document is loaded, and a failed
\* call is the last call of its request.
C15_UnexpectedFailure500 ==
    \A r \in active :
        /\ (~request[r].parses /\ pc[r] # "start") =>
              Done(r) /\ response[r].status = 500 /\ calls[r] = <<>>
        /\ pc[r] \in {"start", "import"} => calls[r] = <<>>
        /\ (Done(r) /\ ValidMessage(r) /\ Truthy(env.GOOGLE_API_KEY) /\ calls[r] = <<>>) =>
              response[r].status = 500
        /\ \A i \in 1..Len(calls[r]) :
              calls[r][i].state = "failed" =>
                  i = Len(calls[r]) /\ Done(r) /\ response[r].status = 500

\* C15 happens: the listing call of a request failed at transport level and
\* the request ended with 500.
C15_Witness ==
    \E r \in active :
        /\ calls[r] # <<>>
        /\ calls[r][Len(calls[r])].kind = "list"
        /\ calls[r][Len(calls[r])].state = "failed"
        /\ Done(r) /\ response[r] = ServerError

\* C15 happens also for the knowledge document: a valid request with a
\* credential ended with 500 before any call.
C15_KnowledgeWitness ==
    \E r \in active :
        /\ ValidMessage(r) /\ Truthy(env.GOOGLE_API_KEY)
        /\ Done(r) /\ calls[r] = <<>> /\ response[r] = ServerError

\* C17: when the primary call is answered with a non-2xx status other than
\* 404 it is the only call of the request, and the response is 502 with the
\* status, model and version of the primary call and a hint exactly when the
\* status is 403 (it is not 404).
C17_PrimaryFailureSurfaced ==
    \A r \in active :
        (/\ calls[r] # <<>> /\ AnsweredGen(r, 1)
         /\ ~IsOk(calls[r][1].status) /\ calls[r][1].status # 404) =>
            /\ Len(calls[r]) = 1
            /\ pc[r] \in {"finish", "done"}
            /\ Done(r) =>
                 /\ response[r].status = 502
                 /\ response[r].upstreamStatus = calls[r][1].status
                 /\ response[r].model = calls[r][1].model
                 /\ response[r].apiVersion = calls[r][1].version
                 /\ response[r].hint.defined <=> calls[r][1].status \in {403, 404}

\* C17 happens: a primary call answered 403 was reported with a hint.
C17_Witness ==
    \E r \in active :
        /\ Done(r) /\ Len(calls[r]) = 1 /\ calls[r][1].status = 403
        /\ response[r].status = 502 /\ response[r].hint = Value(HINT_403)

\* The generation call at position i of r belongs to the listing phase: it
\* follows a listing call.
ListingPhaseGen(r, i) ==
    /\ i \in GenCalls(r)
    /\ i >= 2
    /\ calls[r][i - 1].kind = "list"

\* C19: a generation call of the listing phase is made under the version
\* just listed and targets a model that the listing reports with the
\* generateContent capability.
C19_PickedWasListed ==
    \A r \in active : \A i \in 1..Len(calls[r]) :
        ListingPhaseGen(r, i) =>
            /\ calls[r][i].version = calls[r][i - 1].version
            /\ \E k \in 1..Len(calls[r][i - 1].models) :
                  LET m == calls[r][i - 1].models[k]
                  IN  /\ SupportsGenerate(m)
                      /\ \/ m.name = calls[r][i].model
                         \/ EndsWith(m.name, MODELS_PATH \o calls[r][i].model)

\* C19 happens: a model of the family, not the desired one, was listed and called.
C19_Witness ==
    \E r \in active : \E i \in 1..Len(calls[r]) :
        /\ ListingPhaseGen(r, i)
        /\ calls[r][i].model # calls[r][1].model
        /\ EndsWith(calls[r][i - 1].models[1].name, MODELS_PATH \o calls[r][i].model)
        /\ calls[r][i].state = "response"

\* The generation calls at positions i and j of r target the same model
\* under the same version.
SamePair(r, i, j) ==
    /\ calls[r][i].model = calls[r][j].model
    /\ calls[r][i].version = calls[r][j].version

\* C20 as claimed: no two generation calls of a request target the same
\* model under the same version.
C20_NoPairTwice ==
    \A r \in active : \A i, j \in GenCalls(r) : i < j => ~SamePair(r, i, j)

\* C20 amended: two generation calls of a request target the same model
\* under the same version only when the later one is a call of the listing
\* phase and the earlier one is the primary call or a simple fallback.
C20_OnlyListingRepeats ==
    \A r \in active : \A i, j \in GenCalls(r) :
        (i < j /\ SamePair(r, i, j)) =>
            /\ ListingPhaseGen(r, j)
            /\ i <= 1 + SimpleFallbacks(calls[r][1].model)

\* C20 happens: the listing of the primary version reported the primary
\* model itself, which was called again after its 404.
C20_Witness ==
    \E r \in active : \E j \in GenCalls(r) :
        /\ ListingPhaseGen(r, j)
        /\ SamePair(r, 1, j)
        /\ calls[r][1].status = 404
        /\ calls[r][j].state = "response"

\* The statuses POST responds with.
Statuses == {200, 400, 500, 502}

\* How far the invocation r has come: the stages of POST in the order of
\* the code, one per iteration of its two loops.
Stage(r) ==
    CASE pc[r] = "start" -> 0
      [] pc[r] = "import" -> 1
      [] pc[r] = "primary" -> 2
      [] pc[r] = "fallback" -> 5 - Len(candidates[r])
      [] pc[r] = "listing" -> 9 - 2 * Len(preferredOrder[r])
      [] pc[r] = "retry" -> 10 - 2 * Len(preferredOrder[r])
      [] pc[r] = "finish" -> 9
      [] pc[r] = "done" -> 10

\* C18: with every outbound call eventually answered or failed, all
\* invocations eventually have ended with a response of status 200, 400, 500
\* or 502; an invocation responds once, on ending, stays ended, and every
\* step takes it to a later stage, never back.
C18_Terminates ==
    /\ <>(\A r \in active : Done(r) /\ response[r].status \in Statuses)
    /\ [](\A r \in RequestIds : ~Done(r) => response[r] = NoResponse)
    /\ [][\A r \in RequestIds :
             /\ Done(r) => (Done(r)' /\ response'[r] = response[r])
             /\ Stage(r)' >= Stage(r)
             /\ (pc'[r] # pc[r] \/ calls'[r] # calls[r]) => Stage(r)' > Stage(r)]_vars

\* C18 happens: an invocation has gone through every stage and ended.
C18_Witness ==
    \E r \in active :
        /\ Done(r)
        /\ Len(calls[r]) = 7
        /\ response[r].status \in Statuses

\* ---- POST run alone, as a function of what the invocation is given

\* An invocation alone: its outbound calls and its response.
AlonePending(log) == [calls |-> log, response |-> NoResponse]
AloneThrown(log) == [calls |-> log, response |-> ServerError]
AloneReturn(log, up, model, version) ==
    [calls |-> log, response |-> FinalResponse(up, model, version)]

\* The response of the generation endpoint that the outcome o stands for.
ResponseOf(o) ==
    [status |-> o.status, text |-> o.text,
     raw |-> IF IsOk(o.status) THEN JSON_BODY ELSE ERROR_BODY]

\* The listing loop (lines 137-150) alone, over the versions of order, with
\* the outcomes outs of its calls.
RECURSIVE AloneListingLoop(_, _, _, _, _, _)
AloneListingLoop(log, outs, order, up, model, version) ==
    IF order = <<>> THEN AloneReturn(log, up, model, version)
    ELSE IF outs = <<>> THEN AlonePending(Append(log, ListCall(order[1])))
    ELSE IF outs[1].state = "failed"
    THEN AloneThrown(Failed(Append(log, ListCall(order[1]))))
    ELSE LET listed == Answered(Append(log, ListCall(order[1])),
                                outs[1].status, Undefined, outs[1].models)
             pick == pickClosestSupportedModel(outs[1].models, model)
         IN  IF outs[1].models = <<>> \/ ~Truthy(pick)
             THEN AloneListingLoop(listed, Tail(outs), Tail(order), up, model, version)
             ELSE LET issued == Append(listed, GenerateCall(pick.value, order[1]))
                  IN  IF Len(outs) < 2 THEN AlonePending(issued)
                      ELSE IF outs[2].state = "failed" THEN AloneThrown(Failed(issued))
                      ELSE LET tried == Answered(issued, outs[2].status, outs[2].text, <<>>)
                           IN  IF IsOk(outs[2].status)
                               THEN AloneReturn(tried, ResponseOf(outs[2]),
                                                pick.value, order[1])
                               ELSE AloneListingLoop(tried, Tail(Tail(outs)), Tail(order),
                                                     up, model, version)

\* The loop of the simple fallbacks (lines 124-132) alone, and what follows it.
RECURSIVE AloneFallbackLoop(_, _, _, _, _, _)
AloneFallbackLoop(log, outs, cands, up, model, version) ==
    IF cands = <<>>
    THEN IF ~IsOk(up.status) /\ up.status = 404
         THEN AloneListingLoop(log, outs, PreferredOrder(version), up, model, version)
         ELSE AloneReturn(log, up, model, version)
    ELSE LET issued == Append(log, GenerateCall(cands[1].model, cands[1].version))
         IN  IF outs = <<>> THEN AlonePending(issued)
             ELSE IF outs[1].state = "failed" THEN AloneThrown(Failed(issued))
             ELSE LET tried == Answered(issued, outs[1].status, outs[1].text, <<>>)
                  IN  IF IsOk(outs[1].status)
                      THEN AloneReturn(tried, ResponseOf(outs[1]),
                                       cands[1].model, cands[1].version)
                      ELSE AloneFallbackLoop(tried, Tail(outs), Tail(cands),
                                             up, model, version)

\* POST alone with the configuration e, the inbound request req, the import
\* of the knowledge base resolved or not, and the outcomes outs of its
\* outbound calls in the order they are made.
AlonePOST(e, req, loaded, outs) ==
    IF ~req.parses THEN AloneThrown(<<>>)
    ELSE IF invalidMessage(req.message)
    THEN [calls |-> <<>>, response |-> InvalidMessage]
    ELSE IF ~hasKey(e) THEN [calls |-> <<>>, response |-> MissingKey]
    ELSE IF ~loaded THEN AloneThrown(<<>>)
    ELSE LET model == PrimarySpec(e).model
             version == PrimarySpec(e).apiVersion
             issued == <<GenerateCall(model, version)>>
         IN  IF outs = <<>> THEN AlonePending(issued)
             ELSE IF outs[1].state = "failed" THEN AloneThrown(Failed(issued))
             ELSE LET tried == Answered(issued, outs[1].status, outs[1].text, <<>>)
                      up == ResponseOf(outs[1])
                  IN  IF ~IsOk(up.status) /\ up.status = 404
                      THEN AloneFallbackLoop(tried, Tail(outs), Candidates(model, version),
                                             up, model, version)
                      ELSE AloneReturn(tried, up, model, version)

\* What the outbound calls of r have come to so far, in order.
Outcomes(r) == SelectSeq(calls[r], LAMBDA c : c.state # "pending")

\* The request r run alone with the same configuration, message and
\* upstream outcomes.
Alone(r) == AlonePOST(env, request[r], calls[r] # <<>>, Outcomes(r))

\* What belongs to the invocation r.
Own(r) == <<pc[r], attemptModel[r], attemptVersion[r], upstream[r], candidates[r],
            preferredOrder[r], picked[r], calls[r], response[r]>>

\* C16: with the steps of the requests interleaved in any order, the
\* outbound calls of each request, and its response once it has responded,
\* are those of the request run alone with the same configuration, message
\* and upstream outcomes; a step changes what belongs to one request only,
\* and nothing that all requests read.
C16_Independent ==
    /\ [](\A r \in active :
            /\ calls[r] = Alone(r).calls
            /\ Done(r) => response[r] = Alone(r).response)
    /\ [][/\ \A r, q \in RequestIds :
                r # q => (Own(r)' = Own(r) \/ Own(q)' = Own(q))
          /\ given' = given]_vars

\* C16 happens: two requests were handled together; one went through every
\* stage and failed, the other was answered by its first fallback.
C16_Witness ==
    /\ active = RequestIds
    /\ \A r \in RequestIds : Done(r)
    /\ Len(calls[1]) = 7
    /\ Len(calls[2]) = 2
    /\ response[1].status = 502
    /\ response[2].status = 200

====
